---- MODULE Spec2Model ----
(***************************************************************************)
(* Doctor On Call Simulator: the evaluation rules (game.py), the catalogs  *)
(* (medications.py, patients.py), the main loop of the game (game.py) and  *)
(* the rating memory with its JSON file (memory.py).                       *)
(*                                                                         *)
(* Five specifications share the variables:                                *)
(*   SpecEval  patients are built as generate_patient and the unit tests   *)
(*             build them, and evaluate_patient is applied to them;        *)
(*   Spec      one run of main(): title screen, frames, timeouts, clicks;  *)
(*   SpecLive  Spec with a wall clock that keeps running;                  *)
(*   SpecQueue main() with the event queue of the window system;           *)
(*   SpecMem   a ClinicMemory, a file, and a second ClinicMemory.          *)
(***************************************************************************)
EXTENDS Integers, Sequences, FiniteSets, Bags, TLC

VARIABLES
    ev_patient,       \* SpecEval: the Patient under evaluation, or Absent
    ev_result,        \* SpecEval: what evaluate_patient returned, or Absent
    ev_generated,     \* SpecEval: TRUE when ev_patient came from generate_patient
    pc,               \* Spec: "title", "playing" or "ended" (sys.exit was called)
    day,              \* Spec: game.day
    patients_treated, \* Spec: main's patients_treated
    total_rating,     \* Spec: game.total_rating, as the bag of its entries (the
                      \*       code reads it through sum, len and for display)
    patient,          \* Spec: main's current patient, or Absent
    elapsed,          \* Spec: whole seconds from timer_start to the last clock reading
    time_left,        \* Spec: main's time_left
    outcome,          \* Spec: which screen ended the run
    closing,          \* Spec: the text of the catastrophic screen, or None
    last,             \* Spec: history variable: what the last frame did, op
                      \*       "timeout", "finish" or "frame", and whether the
                      \*       patient it completed was a mishandled severe one
    queue,            \* SpecQueue: the events the window system holds for the
                      \*       next pygame.event.get(), oldest first; history
                      \*       field "stale": queued under an earlier patient
    stale_hit,        \* SpecQueue: history variable: the button on which the
                      \*       last pass applied a stale click, or None
    mem,              \* SpecMem: all_reviews of the saving ClinicMemory
    disk,             \* SpecMem: the file: whether it exists, and its text
    mem2,             \* SpecMem: all_reviews of the loading ClinicMemory
    mpc,              \* SpecMem: "edit"; "saved" after save_to_file; "reloaded"
                      \*          after a load that follows the save; "loaded"
                      \*          after a load without a save; "selfloaded"
                      \*          after the saving memory loaded the file itself
    save_failed,      \* SpecMem: save_to_file printed "Error saving clinic memory"
    load_failed       \* SpecMem: load_from_file printed "Error loading clinic memory"

vars == <<ev_patient, ev_result, ev_generated, pc, day, patients_treated,
          total_rating, patient, elapsed, time_left, outcome, closing, last,
          queue, stale_hit, mem, disk, mem2, mpc, save_failed, load_failed>>

evalVars == <<ev_patient, ev_result, ev_generated>>
gameVars == <<pc, day, patients_treated, total_rating, patient, elapsed,
              time_left, outcome, closing, last, queue, stale_hit>>
queueVars == <<queue, stale_hit>>
memVars == <<mem, disk, mem2, mpc, save_failed, load_failed>>

\* Python's None.
None == "<None>"

\* A variable that holds no object yet (a record, so that it compares with
\* the records it is later assigned).
Absent == [absent |-> TRUE]

\* Python's truth value of a string-or-None.
Truthy(v) == v # None /\ v # ""

(***************************************************************************)
(* medications.py                                                          *)
(***************************************************************************)
ALL_MEDICATIONS ==
    <<"Tylenol", "Antibiotics", "Inhaler", "Tamiflu", "Beta Blocker",
      "IV Fluids", "Anxiety Sedative", "Triptan", "Eipnephrine",
      "Bronchodilator", "Insulin Drip", "Anti-inflammatory">>

CONDITION_TO_CORRECT_MED ==
    [c \in {"Flu", "Migraine", "Anxiety Attack", "Food Poisoning",
            "Broken Hand", "Asthma Flare", "Mild Allergic Reaction",
            "Bacterial Infection", "High Blood Pressure", "Bronchitis",
            "Diabetes", "COPD Flare", "Pneumonia", "UTI with Fever",
            "Osteoarthritis Flare", "Heart Failure", "Sepsis",
            "Anaphylactic Shock", "Ketone Acidosis"} |->
        CASE c = "Flu" -> <<"Tamiflu">>
          [] c = "Migraine" -> <<"Triptan">>
          [] c = "Anxiety Attack" -> <<"Anxiety Sedative">>
          [] c = "Food Poisoning" -> <<"IV Fluids">>
          [] c = "Broken Hand" -> <<"Tylenol">>
          [] c = "Asthma Flare" -> <<"Inhaler">>
          [] c = "Mild Allergic Reaction" -> <<"Eipnephrine">>
          [] c = "Bacterial Infection" -> <<"Antibiotics">>
          [] c = "High Blood Pressure" -> <<"Beta Blocker">>
          [] c = "Bronchitis" -> <<"Bronchodilator">>
          [] c = "Diabetes" -> <<"Insulin Drip">>
          [] c = "COPD Flare" -> <<"Inhaler", "Bronchodilator">>
          [] c = "Pneumonia" -> <<"Antibiotics", "IV Fluids">>
          [] c = "UTI with Fever" -> <<"Antibiotics", "IV Fluids">>
          [] c = "Osteoarthritis Flare" -> <<"Tylenol", "Anti-inflammatory">>
          [] c = "Heart Failure" -> <<"Beta Blocker">>
          [] c = "Sepsis" -> <<"Antibiotics">>
          [] c = "Anaphylactic Shock" -> <<"Eipnephrine", "IV Fluids">>
          [] c = "Ketone Acidosis" -> <<"Insulin Drip", "IV Fluids">>]

SEVERE_CONDITIONS ==
    <<"Heart Failure", "Sepsis", "Anaphylactic Shock", "Ketone Acidosis">>

(***************************************************************************)
(* patients.py                                                             *)
(***************************************************************************)
NAMES ==
    <<"John", "Lily", "Mark", "Anna", "Paul", "Sara", "David", "Emily",
      "Christopher", "Ava", "Daniel", "Sophia", "Matthew", "Chloe", "Kyle",
      "Ella", "Lucas", "Grace", "Nathan", "Zoe", "Ryan", "Mia", "Ethan",
      "Olivia", "Noah">>

PERSONALITIES ==
    <<"Calm", "Nervous", "Scared", "Rude", "Angry", "Quiet", "Sassy",
      "Impatient", "Grateful">>

PERSONALITY_TREATMENT_TIME ==
    [p \in {"Impatient", "Angry", "Nervous", "Scared", "Rude", "Quiet",
            "Sassy", "Calm", "Grateful"} |->
        CASE p = "Impatient" -> 20
          [] p = "Angry" -> 25
          [] p = "Nervous" -> 35
          [] p = "Scared" -> 30
          [] p = "Rude" -> 25
          [] p = "Quiet" -> 40
          [] p = "Sassy" -> 25
          [] p = "Calm" -> 45
          [] p = "Grateful" -> 50]

CONDITIONS ==
    <<"Flu", "Migraine", "Anxiety Attack", "Food Poisoning",
      "Broken Hand", "Asthma Flare", "Heart Failure", "Sepsis",
      "Mild Allergic Reaction", "Bacterial Infection", "High Blood Pressure",
      "Bronchitis", "Diabetes", "Anaphylatic Shock", "Ketone Acidosis",
      "COPD Flare", "Pneumonia", "UTI with Fever", "Osteoarthritis Flare">>

\* The elements of a Python list.
Range(s) == {s[i] : i \in 1..Len(s)}

\* dict.get(key, default)
DictGet(d, key, default) == IF key \in DOMAIN d THEN d[key] ELSE default

\* Patient.__init__: med_given None, admitted False, time from the personality.
Patient(name, condition, personality) ==
    [name |-> name,
     condition |-> condition,
     personality |-> personality,
     med_given |-> None,
     admitted |-> FALSE,
     treatment_time |-> DictGet(PERSONALITY_TREATMENT_TIME, personality, 30),
     time_left |-> DictGet(PERSONALITY_TREATMENT_TIME, personality, 30)]

\* random.randint(a, b): any integer of a..b.
randint(a, b) == a..b

\* get_random_name, get_random_condition, get_random_personality:
\* random.choice of the list.
get_random_name == Range(NAMES)

get_random_condition == Range(CONDITIONS)

get_random_personality == Range(PERSONALITIES)

\* generate_patient(): every patient the three draws can produce.
generate_patient ==
    {Patient(n, c, p) : n \in get_random_name, c \in get_random_condition,
                        p \in get_random_personality}

(***************************************************************************)
(* game.py: evaluate_patient                                               *)
(***************************************************************************)
\* The text of the catastrophic reason (three lines).
SevereReason(name) ==
    name \o " had a severe condition.\n"
         \o "Improper care led to complications.\n"
         \o "Family sued - Clinic Closed."

\* The text of the complaint about a wrong medication.
PoorReason(name) == "Patient " \o name \o " reported poor treatment."

\* correct_meds = CONDITION_TO_CORRECT_MED.get(patient.condition, [])
\* gave_correct_med = patient.med_given in correct_meds
gave_correct_med(p) ==
    p.med_given \in Range(DictGet(CONDITION_TO_CORRECT_MED, p.condition, <<>>))

\* severe = patient.condition in SEVERE_CONDITIONS
severe(p) == p.condition \in Range(SEVERE_CONDITIONS)

\* evaluate_patient with "or" for "and" in the severe branch.
evaluate_patient_or(p) ==
    IF severe(p)
    THEN IF p.admitted \/ gave_correct_med(p)
         THEN {[stars |-> s, reason |-> None] : s \in randint(4, 5)}
         ELSE {[stars |-> 0, reason |-> SevereReason(p.name)]}
    ELSE IF gave_correct_med(p)
         THEN {[stars |-> s, reason |-> None] : s \in randint(4, 5)}
         ELSE IF Truthy(p.med_given)
              THEN {[stars |-> s, reason |-> PoorReason(p.name)] :
                        s \in randint(1, 3)}
              ELSE {[stars |-> 1, reason |-> None]}

\* evaluate_patient drawing randint(3, 5) for a correct treatment.
evaluate_patient_low4(p) ==
    IF severe(p)
    THEN IF p.admitted /\ gave_correct_med(p)
         THEN {[stars |-> s, reason |-> None] : s \in randint(3, 5)}
         ELSE {[stars |-> 0, reason |-> SevereReason(p.name)]}
    ELSE IF gave_correct_med(p)
         THEN {[stars |-> s, reason |-> None] : s \in randint(3, 5)}
         ELSE IF Truthy(p.med_given)
              THEN {[stars |-> s, reason |-> PoorReason(p.name)] :
                        s \in randint(1, 3)}
              ELSE {[stars |-> 1, reason |-> None]}

\* evaluate_patient drawing randint(1, 4) for a wrong medication.
evaluate_patient_high3(p) ==
    IF severe(p)
    THEN IF p.admitted /\ gave_correct_med(p)
         THEN {[stars |-> s, reason |-> None] : s \in randint(4, 5)}
         ELSE {[stars |-> 0, reason |-> SevereReason(p.name)]}
    ELSE IF gave_correct_med(p)
         THEN {[stars |-> s, reason |-> None] : s \in randint(4, 5)}
         ELSE IF Truthy(p.med_given)
              THEN {[stars |-> s, reason |-> PoorReason(p.name)] :
                        s \in randint(1, 4)}
              ELSE {[stars |-> 1, reason |-> None]}

\* evaluate_patient without the test of patient.med_given: no medication is
\* rated as a wrong one.
evaluate_patient_nomed(p) ==
    IF severe(p)
    THEN IF p.admitted /\ gave_correct_med(p)
         THEN {[stars |-> s, reason |-> None] : s \in randint(4, 5)}
         ELSE {[stars |-> 0, reason |-> SevereReason(p.name)]}
    ELSE IF gave_correct_med(p)
         THEN {[stars |-> s, reason |-> None] : s \in randint(4, 5)}
         ELSE {[stars |-> s, reason |-> PoorReason(p.name)] :
                   s \in randint(1, 3)}

\* evaluate_patient(patient): the (stars, reason) pairs it can return, one
\* per outcome of the random draw.
evaluate_patient(p) ==
    IF severe(p)
    THEN IF p.admitted /\ gave_correct_med(p)
         THEN {[stars |-> s, reason |-> None] : s \in randint(4, 5)}
         ELSE {[stars |-> 0, reason |-> SevereReason(p.name)]}
    ELSE IF gave_correct_med(p)
         THEN {[stars |-> s, reason |-> None] : s \in randint(4, 5)}
         ELSE IF Truthy(p.med_given)
              THEN {[stars |-> s, reason |-> PoorReason(p.name)] :
                        s \in randint(1, 3)}
              ELSE {[stars |-> 1, reason |-> None]}

(***************************************************************************)
(* SpecEval: building a patient and evaluating it                          *)
(***************************************************************************)
\* Names and personalities the evaluation runs draw.
EvalNames == {"John"}

EvalPersonalities == {"Calm"}

\* Conditions a test may construct a patient with: the generated ones and
\* the keys of the catalog.
EvalConditions == Range(CONDITIONS) \cup DOMAIN CONDITION_TO_CORRECT_MED

\* Values a caller may assign to med_given: a button's medication, the
\* tests' "INVALID_MED", the empty string, None.
MedInputs == Range(ALL_MEDICATIONS) \cup {"INVALID_MED", "", None}

\* generate_patient() in game.py.
EvGenerate ==
    /\ \E p \in generate_patient :
          /\ p.name \in EvalNames
          /\ p.personality \in EvalPersonalities
          /\ ev_patient' = p
    /\ ev_generated' = TRUE
    /\ ev_result' = Absent
    /\ UNCHANGED <<gameVars, memVars>>

\* Patient("Test", condition, "Calm") in the unit tests.
EvConstruct ==
    /\ \E c \in EvalConditions : ev_patient' = Patient("Test", c, "Calm")
    /\ ev_generated' = FALSE
    /\ ev_result' = Absent
    /\ UNCHANGED <<gameVars, memVars>>

\* patient.med_given = med
EvSetMed ==
    /\ ev_patient # Absent
    /\ \E m \in MedInputs : ev_patient' = [ev_patient EXCEPT !.med_given = m]
    /\ ev_result' = Absent
    /\ UNCHANGED <<ev_generated, gameVars, memVars>>

\* patient.admitted = True (the game), p.admitted = admitted (the tests)
EvSetAdmitted ==
    /\ ev_patient # Absent
    /\ \E b \in BOOLEAN : ev_patient' = [ev_patient EXCEPT !.admitted = b]
    /\ ev_result' = Absent
    /\ UNCHANGED <<ev_generated, gameVars, memVars>>

\* stars, reason = evaluate_patient(patient)
EvEvaluate ==
    /\ ev_patient # Absent
    /\ ev_result = Absent
    /\ ev_result' \in evaluate_patient(ev_patient)
    /\ UNCHANGED <<ev_patient, ev_generated, gameVars, memVars>>

GameIdle ==
    /\ pc = "title"
    /\ day = 1
    /\ patients_treated = 0
    /\ total_rating = EmptyBag
    /\ patient = Absent
    /\ elapsed = 0
    /\ time_left = 0
    /\ outcome = None
    /\ closing = None
    /\ last = [op |-> "none", fatal |-> FALSE]
    /\ queue = <<>>
    /\ stale_hit = None

MemIdle ==
    /\ mem = [t |-> "list", items |-> <<>>]
    /\ disk = [exists |-> FALSE, text |-> ""]
    /\ mem2 = [t |-> "list", items |-> <<>>]
    /\ mpc = "edit"
    /\ save_failed = FALSE
    /\ load_failed = FALSE

EvalIdle ==
    /\ ev_patient = Absent
    /\ ev_result = Absent
    /\ ev_generated = FALSE

InitEval == EvalIdle /\ GameIdle /\ MemIdle

NextEval == EvGenerate \/ EvConstruct \/ EvSetMed \/ EvSetAdmitted \/ EvEvaluate

SpecEval == InitEval /\ [][NextEval]_vars

(***************************************************************************)
(* game.py: main()                                                         *)
(***************************************************************************)
\* What the game runs draw and click: the conditions, names and
\* personalities generation draws from, and the medication buttons clicked.
GameNames == {"John"}

GameConditions == {"Flu", "Heart Failure"}

GamePersonalities == {"Impatient"}

GameMeds == {"Beta Blocker"}

\* Seconds by which the clock reading of a frame can exceed the previous one.
ClockStep == 10

ClockAdvances == {0, ClockStep}

\* The patients generate_patient() returns within these draws.
GamePatients ==
    {p \in generate_patient : /\ p.name \in GameNames
                              /\ p.condition \in GameConditions
                              /\ p.personality \in GamePersonalities}

\* What one frame's event queue delivers: nothing, pygame.QUIT, or a
\* MOUSEBUTTONDOWN with the mouse over a medication button, over "Admit to
\* Specialist", over "Finish Care", or over no button.
Events == {"NONE", "QUIT", "ADMIT", "FINISH", "MISS"} \cup GameMeds

Max(a, b) == IF a >= b THEN a ELSE b

\* sum(total_rating)
RECURSIVE SumBag(_)
SumBag(B) ==
    IF DOMAIN B = {} THEN 0
    ELSE LET v == CHOOSE x \in DOMAIN B : TRUE
         IN  v * B[v] + SumBag([x \in DOMAIN B \ {v} |-> B[x]])

sum(ratings) == SumBag(ratings)

\* len(total_rating)
len(ratings) == BagCardinality(ratings)

\* total_rating.append(stars)
append(ratings, stars) == ratings (+) SetToBag({stars})

\* overall_avg_ok with "overall_avg > 3".
overall_avg_ok_strict(ratings) == sum(ratings) > 3 * len(ratings)

\* overall_avg = sum(total_rating) / len(total_rating); overall_avg >= 3.
\* The float quotient of two integers below 2^52 is >= 3 exactly when the
\* rational one is.
overall_avg_ok(ratings) == sum(ratings) >= 3 * len(ratings)

\* The state of main() as a record, for the steps below.
Cur ==
    [pc |-> pc, day |-> day, patients_treated |-> patients_treated,
     total_rating |-> total_rating, patient |-> patient, elapsed |-> elapsed,
     time_left |-> time_left, outcome |-> outcome, closing |-> closing]

Becomes(st) ==
    /\ pc' = st.pc
    /\ day' = st.day
    /\ patients_treated' = st.patients_treated
    /\ total_rating' = st.total_rating
    /\ patient' = st.patient
    /\ elapsed' = st.elapsed
    /\ time_left' = st.time_left
    /\ outcome' = st.outcome
    /\ closing' = st.closing

\* The final screen and sys.exit().
FinalScreen(st) ==
    [st EXCEPT !.pc = "ended",
               !.outcome = IF overall_avg_ok(st.total_rating)
                           THEN "stays_open" ELSE "closed"]

\* TimeoutPatient routed through evaluate_patient: a timed-out patient is
\* rated as a finished one, and 0 stars close the clinic.
TimeoutPatient_eval(st) ==
    UNION {IF r.stars = 0
           THEN {[st EXCEPT !.pc = "ended", !.outcome = "catastrophic",
                            !.closing = r.reason]}
           ELSE LET s1 == [st EXCEPT
                               !.total_rating = append(st.total_rating, r.stars),
                               !.patients_treated = st.patients_treated + 1]
                    s2 == IF s1.patients_treated >= 5
                          THEN [s1 EXCEPT !.day = s1.day + 1]
                          ELSE s1
                IN  IF s1.patients_treated >= 5 /\ s2.day > 3
                    THEN {FinalScreen(s2)}
                    ELSE {[s2 EXCEPT !.patients_treated =
                                         IF s1.patients_treated >= 5 THEN 0 ELSE @,
                                     !.patient = p,
                                     !.elapsed = 0] : p \in GamePatients}
           : r \in evaluate_patient(st.patient)}

\* TimeoutPatient that only shows the message: no rating, no next patient,
\* no new timer_start.
TimeoutPatient_stall(st) == {st}

\* The body of "if time_left <= 0": the rating 1, the end of the day, the
\* end of the run or the next patient.
TimeoutPatient(st) ==
    LET s1 == [st EXCEPT !.total_rating = append(st.total_rating, 1),
                         !.patients_treated = st.patients_treated + 1]
        s2 == IF s1.patients_treated >= 5
              THEN [s1 EXCEPT !.day = s1.day + 1]
              ELSE s1
    IN  IF s1.patients_treated >= 5 /\ s2.day > 3
        THEN {FinalScreen(s2)}
        ELSE {[s2 EXCEPT !.patients_treated =
                             IF s1.patients_treated >= 5 THEN 0 ELSE @,
                         !.patient = p,
                         !.elapsed = 0] : p \in GamePatients}

\* RecordStars with "patients_treated > 5" for the end of the day.
RecordStars_sixth(st, stars) ==
    LET s1 == [st EXCEPT !.total_rating = append(st.total_rating, stars),
                         !.patients_treated = st.patients_treated + 1]
        s2 == IF s1.patients_treated > 5
              THEN [s1 EXCEPT !.day = s1.day + 1]
              ELSE s1
    IN  IF s1.patients_treated > 5 /\ s2.day > 3
        THEN {FinalScreen(s2)}
        ELSE {[s2 EXCEPT !.patients_treated =
                             IF s1.patients_treated > 5 THEN 0 ELSE @,
                         !.patient = p,
                         !.elapsed = 0] : p \in GamePatients}

\* The body of "if finish_rect.collidepoint(mx, my)" after a rating above 0.
RecordStars(st, stars) ==
    LET s1 == [st EXCEPT !.total_rating = append(st.total_rating, stars),
                         !.patients_treated = st.patients_treated + 1]
        s2 == IF s1.patients_treated >= 5
              THEN [s1 EXCEPT !.day = s1.day + 1]
              ELSE s1
    IN  IF s1.patients_treated >= 5 /\ s2.day > 3
        THEN {FinalScreen(s2)}
        ELSE {[s2 EXCEPT !.patients_treated =
                             IF s1.patients_treated >= 5 THEN 0 ELSE @,
                         !.patient = p,
                         !.elapsed = 0] : p \in GamePatients}

\* FinishCare without the "if stars == 0" branch: a rating of 0 is recorded
\* like any other and the run goes on.
FinishCare_noexit(st) ==
    UNION {RecordStars(st, r.stars) : r \in evaluate_patient(st.patient)}

\* FinishCare recording the rating before it tests "stars == 0".
FinishCare_record0(st) ==
    UNION {IF r.stars = 0
           THEN {[st EXCEPT !.pc = "ended", !.outcome = "catastrophic",
                            !.closing = r.reason,
                            !.total_rating = append(st.total_rating, 0)]}
           ELSE RecordStars(st, r.stars) : r \in evaluate_patient(st.patient)}

\* "Finish Care": the evaluation, the catastrophic screen or the rating.
FinishCare(st) ==
    UNION {IF r.stars = 0
           THEN {[st EXCEPT !.pc = "ended", !.outcome = "catastrophic",
                            !.closing = r.reason]}
           ELSE RecordStars(st, r.stars) : r \in evaluate_patient(st.patient)}

\* HandleEvent with an "Admit to Specialist" button that toggles.
HandleEvent_toggle(st, e) ==
    CASE e = "QUIT" -> {[st EXCEPT !.pc = "ended", !.outcome = "quit"]}
      [] e \in Range(ALL_MEDICATIONS) ->
            {[st EXCEPT !.patient = [@ EXCEPT !.med_given = e]]}
      [] e = "ADMIT" ->
            {[st EXCEPT !.patient = [@ EXCEPT !.admitted = ~st.patient.admitted]]}
      [] e = "FINISH" -> FinishCare(st)
      [] OTHER -> {st}

\* One event of "for event in pygame.event.get()".
HandleEvent(st, e) ==
    CASE e = "QUIT" -> {[st EXCEPT !.pc = "ended", !.outcome = "quit"]}
      [] e \in Range(ALL_MEDICATIONS) ->
            {[st EXCEPT !.patient = [@ EXCEPT !.med_given = e]]}
      [] e = "ADMIT" -> {[st EXCEPT !.patient = [@ EXCEPT !.admitted = TRUE]]}
      [] e = "FINISH" -> FinishCare(st)
      [] OTHER -> {st}

\* History only: evaluate_patient would give this patient 0 stars.
Fatal(p) == \E r \in evaluate_patient(p) : r.stars = 0

\* title_screen(): a click starts main's loop with the first patient.
TitleClick ==
    /\ pc = "title"
    /\ \E p \in GamePatients :
          /\ patient' = p
          /\ time_left' = p.time_left
    /\ pc' = "playing"
    /\ patients_treated' = 0
    /\ elapsed' = 0
    /\ UNCHANGED <<day, total_rating, outcome, closing, last, queueVars,
                   evalVars, memVars>>

\* title_screen(): pygame.QUIT.
TitleQuit ==
    /\ pc = "title"
    /\ pc' = "ended"
    /\ outcome' = "quit"
    /\ UNCHANGED <<day, patients_treated, total_rating, patient, elapsed,
                   time_left, closing, last, queueVars, evalVars, memVars>>

\* One pass of "while True" in which the time has run out, the clock having
\* advanced by d seconds since the previous pass.
TimeoutFrameAt(d) ==
    /\ pc = "playing"
    /\ LET tl == Max(patient.time_left - (elapsed + d), 0)
       IN  /\ tl <= 0
           /\ \E st \in TimeoutPatient([Cur EXCEPT !.time_left = tl]) :
                 Becomes(st)
    /\ last' = [op |-> "timeout", fatal |-> Fatal(patient)]
    /\ UNCHANGED <<queueVars, evalVars, memVars>>

TimeoutFrame == \E d \in ClockAdvances : TimeoutFrameAt(d)

\* One pass of "while True" in which time is left: the screen is drawn and
\* the event e is handled.
EventFrameAt(d, e) ==
    /\ pc = "playing"
    /\ LET tl == Max(patient.time_left - (elapsed + d), 0)
       IN  /\ tl > 0
           /\ \E st \in HandleEvent([Cur EXCEPT !.time_left = tl,
                                                !.elapsed = elapsed + d], e) :
                 Becomes(st)
    /\ last' = IF e = "FINISH"
               THEN [op |-> "finish", fatal |-> Fatal(patient)]
               ELSE [op |-> "frame", fatal |-> FALSE]
    /\ UNCHANGED <<queueVars, evalVars, memVars>>

EventFrameOn(e) == \E d \in ClockAdvances : EventFrameAt(d, e)

EventFrame == \E e \in Events : EventFrameOn(e)

Init == GameIdle /\ EvalIdle /\ MemIdle

Next == TitleClick \/ TitleQuit \/ TimeoutFrame \/ EventFrame

Spec == Init /\ [][Next]_vars

\* A pass of the loop during which the wall clock (pygame.time.get_ticks)
\* has moved on by a whole second step.
ClockTick ==
    \/ TimeoutFrameAt(ClockStep)
    \/ \E e \in Events : EventFrameAt(ClockStep, e)

\* The runs in which get_random_condition draws one condition every time, a
\* severe one: ratings of 1, 4 and 5 stars and the catastrophic end remain.
WardCondition == "Heart Failure"

OneCondition == patient # Absent => patient.condition = WardCondition

LiveTitleClick == TitleClick /\ OneCondition'

LiveTimeoutFrame == TimeoutFrame /\ OneCondition'

LiveEventFrame == EventFrame /\ OneCondition'

LiveNext == LiveTitleClick \/ TitleQuit \/ LiveTimeoutFrame \/ LiveEventFrame

\* The main loop with a wall clock that keeps running: clock.tick(60) makes
\* every pass take real time, so passes that see the clock advanced recur.
SpecLive == Init /\ [][LiveNext]_vars /\ WF_vars(ClockTick /\ OneCondition')

(***************************************************************************)
(* game.py: main() with the event queue of the window system               *)
(***************************************************************************)
\* The most events the queue holds between two pygame.event.get() calls.
MaxQueue == 2

\* Where the mouse is when pygame.event.get() pumps the events: over a
\* medication button, "Admit to Specialist", "Finish Care" or no button.
\* pygame.mouse.get_pos() is read while an event is handled, so every click
\* of one batch acts at this position.
Positions == {"ADMIT", "FINISH", "MISS"} \cup GameMeds

\* The user clicks or closes the window while a patient is on the screen:
\* the event waits in the queue until the loop calls pygame.event.get().
UserInput ==
    /\ pc = "playing"
    /\ Len(queue) < MaxQueue
    /\ \E k \in {"CLICK", "QUIT"} :
          queue' = Append(queue, [kind |-> k, stale |-> FALSE])
    /\ UNCHANGED <<pc, day, patients_treated, total_rating, patient, elapsed,
                   time_left, outcome, closing, last, stale_hit, evalVars,
                   memVars>>

\* History only: every waiting event now dates from an earlier patient.
AllStale(q) == [i \in 1..Len(q) |-> [q[i] EXCEPT !.stale = TRUE]]

\* One event of "for event in pygame.event.get()" with the mouse at pos. x
\* carries main's state, whether the patient was replaced during this batch
\* and the history of stale clicks; after sys.exit() nothing is handled.
HandleQueued(x, ev, pos) ==
    IF x.st.pc # "playing"
    THEN {x}
    ELSE LET e == IF ev.kind = "QUIT" THEN "QUIT" ELSE pos
             old == ev.stale \/ x.replaced
         IN  {[st |-> s2,
               replaced |-> x.replaced \/ (e = "FINISH" /\ s2.pc = "playing"),
               hit |-> IF old /\ e \in Positions \ {"MISS"} THEN e ELSE x.hit]
              : s2 \in HandleEvent(x.st, e)}

\* The for loop over the batch q from its i-th event on.
RECURSIVE ProcessBatch(_, _, _, _)
ProcessBatch(xs, q, i, pos) ==
    IF i > Len(q)
    THEN xs
    ELSE ProcessBatch(UNION {HandleQueued(x, q[i], pos) : x \in xs}, q, i + 1, pos)

\* One pass of "while True" in which the time has run out: the branch ends
\* with "continue", so pygame.event.get() is not called and the queue stays.
BatchTimeoutAt(d) ==
    /\ pc = "playing"
    /\ LET tl == Max(patient.time_left - (elapsed + d), 0)
       IN  /\ tl <= 0
           /\ \E st \in TimeoutPatient([Cur EXCEPT !.time_left = tl]) :
                 Becomes(st)
    /\ last' = [op |-> "timeout", fatal |-> Fatal(patient)]
    /\ queue' = AllStale(queue)
    /\ stale_hit' = None
    /\ OneCondition'
    /\ UNCHANGED <<evalVars, memVars>>

BatchTimeout == \E d \in ClockAdvances : BatchTimeoutAt(d)

\* One pass of "while True" in which time is left: pygame.event.get() takes
\* the whole queue and the for loop handles it, event after event.
BatchFrameAt(d, pos) ==
    /\ pc = "playing"
    /\ LET tl == Max(patient.time_left - (elapsed + d), 0)
       IN  /\ tl > 0
           /\ \E x \in ProcessBatch({[st |-> [Cur EXCEPT !.time_left = tl,
                                                          !.elapsed = elapsed + d],
                                       replaced |-> FALSE,
                                       hit |-> None]},
                                     queue, 1, pos) :
                 /\ Becomes(x.st)
                 /\ stale_hit' = x.hit
    /\ last' = [op |-> "batch", fatal |-> FALSE]
    /\ queue' = <<>>
    /\ OneCondition'
    /\ UNCHANGED <<evalVars, memVars>>

BatchFrame == \E d \in ClockAdvances, pos \in Positions : BatchFrameAt(d, pos)

NextQueue == LiveTitleClick \/ TitleQuit \/ UserInput \/ BatchTimeout \/ BatchFrame

SpecQueue == Init /\ [][NextQueue]_vars

(***************************************************************************)
(* memory.py: ClinicMemory                                                 *)
(***************************************************************************)
\* Python values as json sees them: an int, and a list of values.
PyInt(n) == [t |-> "int", n |-> n]

PyList(xs) == [t |-> "list", items |-> xs]

\* A file of the file system: missing, or present with a text.
Missing == [exists |-> FALSE, text |-> ""]

File(text) == [exists |-> TRUE, text |-> text]

DigitChars == <<"0", "1", "2", "3", "4", "5", "6", "7", "8", "9">>

\* The decimal digits of a natural number.
RECURSIVE NatToStr(_)
NatToStr(n) ==
    IF n < 10 THEN DigitChars[n + 1]
    ELSE NatToStr(n \div 10) \o DigitChars[(n % 10) + 1]

\* int.__repr__, which json writes for an int.
IntToStr(n) == IF n < 0 THEN "-" \o NatToStr(-n) ELSE NatToStr(n)

\* json.dump of an int or a list, with the default separators: "[4, 1]".
RECURSIVE JsonDump(_)
RECURSIVE JsonDumpItems(_, _)
JsonDumpItems(xs, i) ==
    IF i > Len(xs) THEN ""
    ELSE (IF i > 1 THEN ", " ELSE "") \o JsonDump(xs[i]) \o JsonDumpItems(xs, i + 1)

JsonDump(val) ==
    IF val.t = "int" THEN IntToStr(val.n)
    ELSE "[" \o JsonDumpItems(val.items, 1) \o "]"

\* The character of a text at a position, "" past its end.
Ch(s, i) == IF i >= 1 /\ i <= Len(s) THEN SubSeq(s, i, i) ELSE ""

IsDigit(c) == \E d \in 1..10 : DigitChars[d] = c

DigitVal(c) == (CHOOSE d \in 1..10 : DigitChars[d] = c) - 1

\* json's whitespace, skipped before and after every value.
RECURSIVE SkipWs(_, _)
SkipWs(s, i) == IF Ch(s, i) = " " THEN SkipWs(s, i + 1) ELSE i

ParseFail == [ok |-> FALSE, val |-> PyInt(0), pos |-> 0]

RECURSIVE ParseDigits(_, _, _)
ParseDigits(s, i, acc) ==
    IF IsDigit(Ch(s, i)) THEN ParseDigits(s, i + 1, acc * 10 + DigitVal(Ch(s, i)))
    ELSE [ok |-> TRUE, val |-> acc, pos |-> i]

\* A JSON number of the texts modelled here: -?(0|[1-9][0-9]*).
ParseNumber(s, i) ==
    LET neg == Ch(s, i) = "-"
        j == IF neg THEN i + 1 ELSE i
    IN  IF ~IsDigit(Ch(s, j)) THEN ParseFail
        ELSE LET d == IF Ch(s, j) = "0"
                      THEN [ok |-> TRUE, val |-> 0, pos |-> j + 1]
                      ELSE ParseDigits(s, j, 0)
             IN  [ok |-> TRUE,
                  val |-> PyInt(IF neg THEN 0 - d.val ELSE d.val),
                  pos |-> d.pos]

\* A JSON value at position i, and the items of an array after "[".
RECURSIVE ParseValue(_, _)
RECURSIVE ParseItems(_, _, _)
ParseItems(s, i, acc) ==
    LET item == ParseValue(s, i)
        j == SkipWs(s, item.pos)
    IN  IF ~item.ok THEN ParseFail
        ELSE IF Ch(s, j) = "]"
             THEN [ok |-> TRUE, val |-> PyList(Append(acc, item.val)), pos |-> j + 1]
        ELSE IF Ch(s, j) = ","
             THEN ParseItems(s, SkipWs(s, j + 1), Append(acc, item.val))
        ELSE ParseFail

ParseValue(s, i) ==
    IF Ch(s, i) = "["
    THEN LET j == SkipWs(s, i + 1)
         IN  IF Ch(s, j) = "]"
             THEN [ok |-> TRUE, val |-> PyList(<<>>), pos |-> j + 1]
             ELSE ParseItems(s, j, <<>>)
    ELSE ParseNumber(s, i)

\* json.load of a text: the value, or ok = FALSE where it raises.
JsonLoad(s) ==
    LET r == ParseValue(s, SkipWs(s, 1))
    IN  IF r.ok /\ SkipWs(s, r.pos) = Len(s) + 1 THEN r ELSE ParseFail

\* The proper prefixes of a text: what a write that fails leaves in the file.
ProperPrefixes(s) == {SubSeq(s, 1, k) : k \in 0..(Len(s) - 1)}

\* save_to_file writing nothing when all_reviews is empty.
save_to_file_skip_empty(reviews, file) ==
    IF reviews.items = <<>>
    THEN {[file |-> file, failed |-> FALSE]}
    ELSE {[file |-> File(JsonDump(reviews)), failed |-> FALSE]}
         \cup {[file |-> file, failed |-> TRUE]}
         \cup {[file |-> File(t), failed |-> TRUE] :
                   t \in ProperPrefixes(JsonDump(reviews))}

\* save_to_file(filename): the file and whether the error was printed. The
\* file is written whole; or open() raises and the file is as it was; or
\* the write raises and the file holds a proper prefix.
save_to_file(reviews, file) ==
    {[file |-> File(JsonDump(reviews)), failed |-> FALSE]}
    \cup {[file |-> file, failed |-> TRUE]}
    \cup {[file |-> File(t), failed |-> TRUE] :
              t \in ProperPrefixes(JsonDump(reviews))}

\* load_from_file(filename): all_reviews afterwards and whether the error
\* was printed. A missing file gives []; open() or json.load raising gives
\* [] and the message; otherwise all_reviews is what json.load returned.
load_from_file(file) ==
    IF ~file.exists
    THEN {[reviews |-> PyList(<<>>), failed |-> FALSE]}
    ELSE {[reviews |-> PyList(<<>>), failed |-> TRUE]}
         \cup (IF JsonLoad(file.text).ok
               THEN {[reviews |-> JsonLoad(file.text).val, failed |-> FALSE]}
               ELSE {})

(***************************************************************************)
(* SpecMem: reviews are added, saved to a file and loaded from it          *)
(***************************************************************************)
\* The number of reviews a memory holds in these runs.
MaxReviews == 3

\* The stars add_review is called with.
ReviewValues == {-12, 0, 4, 105}

\* What the file holds before the run.
PriorFiles ==
    {Missing, File("[9]"), File(" [ 1 ,2 ] "), File("[1,"), File("7"),
     File(""), File("[[4], 5]")}

\* add_review(stars)
AddReview ==
    /\ mpc = "edit"
    /\ Len(mem.items) < MaxReviews
    /\ \E stars \in ReviewValues : mem' = PyList(Append(mem.items, PyInt(stars)))
    /\ UNCHANGED <<disk, mem2, mpc, save_failed, load_failed, evalVars, gameVars>>

\* reset_reviews()
ResetReviews ==
    /\ mpc = "edit"
    /\ mem' = PyList(<<>>)
    /\ UNCHANGED <<disk, mem2, mpc, save_failed, load_failed, evalVars, gameVars>>

\* mem.save_to_file(filename)
SaveToFile ==
    /\ mpc = "edit"
    /\ \E r \in save_to_file(mem, disk) :
          /\ disk' = r.file
          /\ save_failed' = r.failed
    /\ mpc' = "saved"
    /\ UNCHANGED <<mem, mem2, load_failed, evalVars, gameVars>>

\* mem2 = ClinicMemory(); mem2.load_from_file(filename)
LoadFromFile ==
    /\ mpc \in {"edit", "saved"}
    /\ \E r \in load_from_file(disk) :
          /\ mem2' = r.reviews
          /\ load_failed' = r.failed
    /\ mpc' = IF mpc = "saved" THEN "reloaded" ELSE "loaded"
    /\ UNCHANGED <<mem, disk, save_failed, evalVars, gameVars>>

\* mem.load_from_file(filename): the memory that holds reviews loads the file.
LoadIntoSelf ==
    /\ mpc = "edit"
    /\ \E r \in load_from_file(disk) :
          /\ mem' = r.reviews
          /\ load_failed' = r.failed
    /\ mpc' = "selfloaded"
    /\ UNCHANGED <<disk, mem2, save_failed, evalVars, gameVars>>

InitMem ==
    /\ EvalIdle
    /\ GameIdle
    /\ mem = PyList(<<>>)
    /\ disk \in PriorFiles
    /\ mem2 = PyList(<<>>)
    /\ mpc = "edit"
    /\ save_failed = FALSE
    /\ load_failed = FALSE

NextMem ==
    AddReview \/ ResetReviews \/ SaveToFile \/ LoadFromFile \/ LoadIntoSelf

SpecMem == InitMem /\ [][NextMem]_vars

(***************************************************************************)
(* Claims about evaluate_patient and the catalogs (under SpecEval)         *)
(***************************************************************************)
\* "t in s" for Python strings.
Contains(s, t) ==
    \E i \in 1..(Len(s) - Len(t) + 1) : SubSeq(s, i, i + Len(t) - 1) = t

\* The correct medications of a condition, read off the catalog.
CorrectMedsOf(c) ==
    IF c \in DOMAIN CONDITION_TO_CORRECT_MED
    THEN {CONDITION_TO_CORRECT_MED[c][i] :
              i \in 1..Len(CONDITION_TO_CORRECT_MED[c])}
    ELSE {}

InSevereList(c) == \E i \in 1..Len(SEVERE_CONDITIONS) : SEVERE_CONDITIONS[i] = c

Evaluated == ev_patient # Absent /\ ev_result # Absent

\* C1: a patient whose condition is in SEVERE_CONDITIONS and who is not
\* admitted, or whose medication is not a correct one (none included), is
\* evaluated to exactly 0 stars and a non-empty reason that says
\* "Clinic Closed".
C1_SevereMishandled ==
    (/\ Evaluated
     /\ InSevereList(ev_patient.condition)
     /\ \/ ~ev_patient.admitted
        \/ ev_patient.med_given \notin CorrectMedsOf(ev_patient.condition))
    => /\ ev_result.stars = 0
       /\ ev_result.reason # None
       /\ ev_result.reason # ""
       /\ Contains(ev_result.reason, "Clinic Closed")

\* A severe patient with the correct medication but no admission was evaluated.
C1_Witness ==
    /\ Evaluated
    /\ InSevereList(ev_patient.condition)
    /\ ~ev_patient.admitted
    /\ ev_patient.med_given \in CorrectMedsOf(ev_patient.condition)
    /\ ev_result.stars = 0

\* C2: a patient given a correct medication, whose condition is non-severe
\* or severe with admission, is evaluated to 4 or 5 stars and no reason,
\* whatever the draw.
C2_CorrectCare ==
    (/\ Evaluated
     /\ ev_patient.med_given \in CorrectMedsOf(ev_patient.condition)
     /\ \/ ~InSevereList(ev_patient.condition)
        \/ ev_patient.admitted)
    => /\ ev_result.stars \in {4, 5}
       /\ ev_result.reason = None

\* A severe, admitted patient with a correct medication was evaluated to 5 stars.
C2_Witness ==
    /\ Evaluated
    /\ InSevereList(ev_patient.condition)
    /\ ev_patient.admitted
    /\ ev_patient.med_given \in CorrectMedsOf(ev_patient.condition)
    /\ ev_result.stars = 5

\* C3: a non-severe patient given a non-empty medication that is not a
\* correct one is evaluated to 1, 2 or 3 stars and a non-empty reason,
\* whatever the draw and the admitted flag.
C3_WrongMed ==
    (/\ Evaluated
     /\ ~InSevereList(ev_patient.condition)
     /\ ev_patient.med_given # None
     /\ ev_patient.med_given # ""
     /\ ev_patient.med_given \notin CorrectMedsOf(ev_patient.condition))
    => /\ ev_result.stars \in {1, 2, 3}
       /\ ev_result.reason # None
       /\ ev_result.reason # ""

\* A non-severe, admitted patient with a wrong medication was evaluated to 3 stars.
C3_Witness ==
    /\ Evaluated
    /\ ~InSevereList(ev_patient.condition)
    /\ ev_patient.admitted
    /\ ev_patient.med_given \in Range(ALL_MEDICATIONS)
    /\ ev_patient.med_given \notin CorrectMedsOf(ev_patient.condition)
    /\ ev_result.stars = 3

\* C4: a non-severe patient with med_given None is evaluated to exactly 1
\* star and no reason, whatever the admitted flag.
C4_NoMed ==
    (/\ Evaluated
     /\ ~InSevereList(ev_patient.condition)
     /\ ev_patient.med_given = None)
    => /\ ev_result.stars = 1
       /\ ev_result.reason = None

\* A non-severe, admitted patient with no medication was evaluated.
C4_Witness ==
    /\ Evaluated
    /\ ~InSevereList(ev_patient.condition)
    /\ ev_patient.admitted
    /\ ev_patient.med_given = None
    /\ ev_result.stars = 1

\* C9: every condition generation can draw has an entry in
\* CONDITION_TO_CORRECT_MED, so that no generated patient is evaluated with
\* an empty list of correct medications.
C9_GeneratedHasEntry ==
    (ev_patient # Absent /\ ev_generated)
    => /\ ev_patient.condition \in DOMAIN CONDITION_TO_CORRECT_MED
       /\ CorrectMedsOf(ev_patient.condition) # {}

(***************************************************************************)
(* Claims about main() (under Spec)                                        *)
(***************************************************************************)
\* A severe condition without both the admission and a correct medication.
Mishandled(p) ==
    /\ InSevereList(p.condition)
    /\ ~(p.admitted /\ p.med_given \in CorrectMedsOf(p.condition))

\* The number of entries of the rating history, and their sum.
Recorded == BagCardinality(total_rating)

Total == SumBag(total_rating)

\* C5: when the remaining time of the current patient reaches 0, exactly
\* the rating 1 is added to the rating history and the step does not end
\* the run by catastrophic closure, whatever the condition, the medication
\* and the admission of that patient.
C5_TimeoutGivesOne ==
    [][(pc = "playing" /\ time_left' = 0)
       => /\ total_rating' = total_rating (+) SetToBag({1})
          /\ outcome' # "catastrophic"]_vars

\* A mishandled severe patient has timed out, and the run goes on or has
\* ended with a final screen.
C5_Witness ==
    /\ last = [op |-> "timeout", fatal |-> TRUE]
    /\ time_left = 0
    /\ BagIn(1, total_rating)
    /\ outcome # "catastrophic"

\* C6: from any Playing state, Finish Care on a patient evaluated to 0
\* stars goes directly to the terminal failed state: no rating is recorded,
\* neither counter advances, and no patient is presented afterwards.
C6_CatastropheEndsRun ==
    /\ [][(pc = "playing" /\ last'.op = "finish" /\ Mishandled(patient))
          => /\ pc' = "ended"
             /\ outcome' = "catastrophic"
             /\ total_rating' = total_rating
             /\ day' = day
             /\ patients_treated' = patients_treated
             /\ patient' = patient]_vars
    /\ [][pc = "ended" => (pc' = "ended" /\ patient' = patient)]_vars

\* The clinic was closed by a catastrophe on the last patient of day 3.
C6_Witness ==
    /\ pc = "ended"
    /\ outcome = "catastrophic"
    /\ day = 3
    /\ patients_treated = 4
    /\ Recorded = 14

\* C7: a run ended by day progression has 15 ratings, and it ends in
\* "stays open" exactly when their sum is at least 45; so ratings all >= 4
\* end in "stays open" and ratings all <= 2 in "closed".
C7_FinalVerdict ==
    outcome \in {"stays_open", "closed"}
    => /\ Recorded = 15
       /\ (outcome = "stays_open") <=> (Total >= 45)
       /\ (\A v \in DOMAIN total_rating : v >= 4) => outcome = "stays_open"
       /\ (\A v \in DOMAIN total_rating : v <= 2) => outcome = "closed"

\* A run ended in "stays open" with a sum of exactly 45.
C7_Witness ==
    /\ outcome = "stays_open"
    /\ Total = 45

\* In Playing the ratings number 5*(day-1) + patients_treated, fewer than 15.
PlayingCount ==
    pc = "playing" => /\ Recorded = 5 * (day - 1) + patients_treated
                      /\ Recorded < 15

\* A final screen is shown with 15 ratings, day having become 4.
EndedCount ==
    outcome \in {"stays_open", "closed"} => (Recorded = 15 /\ day = 4)

\* A step that completes a patient without a catastrophe adds one rating,
\* advances day exactly at a multiple of 5 and ends the run exactly at 15;
\* every other step leaves day and the ratings alone.
CompletionStep ==
    /\ (pc = "playing" /\ last'.op \in {"timeout", "finish"}
                       /\ outcome' # "catastrophic")
       => /\ BagCardinality(total_rating') = Recorded + 1
          /\ day' = IF BagCardinality(total_rating') % 5 = 0
                    THEN day + 1 ELSE day
          /\ (BagCardinality(total_rating') = 15)
                <=> (outcome' \in {"stays_open", "closed"})
    /\ ~(pc = "playing" /\ last'.op \in {"timeout", "finish"}
                        /\ outcome' # "catastrophic")
       => (day' = day /\ total_rating' = total_rating)

\* C8: every finished or timed-out patient adds exactly one rating; the
\* day advances by 1 at every fifth completed patient and at no other step,
\* so that in Playing the ratings number 5*(day-1) + patients_treated; and
\* the run ends by day progression exactly at the 15th completed patient.
C8_Progression == [](PlayingCount /\ EndedCount) /\ [][CompletionStep]_vars

\* The third day has begun: ten ratings, none treated today.
C8_Witness ==
    /\ pc = "playing"
    /\ day = 3
    /\ patients_treated = 0
    /\ Recorded = 10
    /\ last.op = "timeout"

ValidHistory(file) ==
    /\ file.exists
    /\ JsonLoad(file.text).ok
    /\ JsonLoad(file.text).val.t = "list"
    /\ \A i \in 1..Len(JsonLoad(file.text).val.items) :
          JsonLoad(file.text).val.items[i].t = "int"

\* C11: a load from a file that is missing or is not a persisted rating
\* history leaves the memory with the empty rating history, whatever it
\* held before the load.
C11_BadFileGivesDefaults ==
    /\ (mpc \in {"loaded", "reloaded"} /\ ~ValidHistory(disk))
          => mem2 = PyList(<<>>)
    /\ (mpc = "selfloaded" /\ ~ValidHistory(disk)) => mem = PyList(<<>>)

(***************************************************************************)
(* Claims about the clicks of one patient (under Spec)                     *)
(***************************************************************************)
\* A frame in which the user acts on the displayed patient without
\* committing: time is left, the event is neither Finish Care nor QUIT.
UserStep ==
    /\ \E e \in Events \ {"FINISH", "QUIT"} : EventFrameOn(e)
    /\ pc' = "playing"

\* A click sets a field to a value that does not depend on the state, so a
\* value is reachable by user actions exactly when one user step gives it.
CanSetMed(m) == ENABLED (UserStep /\ patient'.med_given = m)

CanSetAdmitted(b) == ENABLED (UserStep /\ patient'.admitted = b)

C13_PlayingRanges ==
    pc = "playing"
    => /\ day \in 1..3
       /\ patients_treated \in 0..4
       /\ \A r \in BagToSet(total_rating) : r \in 1..5

\* The last patient of the run is presented after ratings of 1 and of 5 stars
\* have been recorded, the latest by Finish Care.
C13_Witness ==
    /\ pc = "playing"
    /\ day = 3
    /\ patients_treated = 4
    /\ BagIn(1, total_rating)
    /\ BagIn(5, total_rating)
    /\ last.op = "finish"

(***************************************************************************)
(* Claims about termination (under SpecLive)                               *)
(***************************************************************************)
\* A patient on the screen is within the allowed time, and is at most the
\* fifteenth patient of the run.
WithinLimits ==
    pc = "playing" => /\ elapsed < patient.time_left
                      /\ Recorded + 1 <= 15

\* C15, as claimed: once the game has started, every run eventually reaches
\* one of the three terminal states (the clinic stays open, it is closed by
\* its average, or it is closed by a catastrophic error) while the wall clock
\* keeps running, whatever the user does; each patient is completed within
\* the allowed time and at most 15 patients are presented.
C15_EndsOnAVerdict ==
    /\ []WithinLimits
    /\ (pc = "playing")
          ~> (pc = "ended" /\ outcome \in {"stays_open", "closed", "catastrophic"})

\* C15, amended: once the game has started, every run eventually ends while
\* the wall clock keeps running, whatever the user does: by one of the three
\* verdicts or, when the user closes the window, at once and with no verdict;
\* each patient is completed within the allowed time and at most 15
\* patients are presented.
C15_EndsOrIsClosed ==
    /\ []WithinLimits
    /\ [](pc = "ended" => outcome \in {"stays_open", "closed", "catastrophic", "quit"})
    /\ (pc = "playing") ~> (pc = "ended")

\* The user did nothing at all: fifteen timeouts, fifteen ratings of 1 star,
\* and the clinic is closed by its average.
C15_Witness ==
    /\ pc = "ended"
    /\ outcome = "closed"
    /\ Recorded = 15
    /\ BagToSet(total_rating) = {1}
    /\ last.op = "timeout"

\* Under Spec, where every condition of GameConditions is drawn: a measure
\* of the work left, which no pass of the loop raises and which every pass
\* that sees the clock advanced lowers. With WithinLimits it bounds the
\* number of such passes in any run.
WorkLeft ==
    LET allowed == {p.time_left : p \in GamePatients}
        longest == CHOOSE t \in allowed : \A u \in allowed : u <= t
    IN  CASE pc = "title" -> 16 * (longest + 1)
          [] pc = "playing" ->
                (15 - Recorded) * (longest + 1) + (patient.time_left - elapsed)
          [] OTHER -> 0

C15_WorkLeftDecreases ==
    [][WorkLeft' <= WorkLeft /\ (ClockTick => WorkLeft' < WorkLeft)]_vars

(***************************************************************************)
(* Claims about the event queue (under SpecQueue)                          *)
(***************************************************************************)
\* C14: a click issued while patient P is on the screen is only ever
\* applied to P: once P has been replaced (by Finish Care or by timeout), no
\* click queued while P was current sets the medication or the admission
\* of the next patient, or commits Finish Care for the next patient.
C14_ClicksStayWithPatient == stale_hit = None

====
